---- MODULE Spec2Model ----
(***************************************************************************)
(* Model of the pico_fota bootloader: the boot decision of main, the       *)
(* sector swap of swap_images and the recovery HTTP server, in its two     *)
(* variants: src/unnamed/part_000 (recovery entered by GPIO 0 / GPIO 8)    *)
(* and src/bootloader.c (recovery window entered on the union of the       *)
(* persisted flags).                                                        *)
(*                                                                         *)
(* Sizes are scaled down, keeping their ratios' shape: a sector is several *)
(* program pages, a slot is several sectors, the ethernet buffer is larger *)
(* than a page.  Flash bytes are 8 bits wide; an erase sets a byte to 0xFF *)
(* and a program ANDs the new byte into the old one.                       *)
(***************************************************************************)
EXTENDS Integers, Sequences, FiniteSets, TLC

\* PFB_ALIGN_SIZE (256 in the program), scaled: bytes per program page.
PFB_ALIGN_SIZE == 2
\* FLASH_SECTOR_SIZE (4096 in the program), scaled: bytes per erase sector.
FLASH_SECTOR_SIZE == 4
\* Number of sectors of a slot (APP and DOWNLOAD have the same length).
SlotSectors == 2
\* __FLASH_SWAP_SPACE_LENGTH: the length of a slot in bytes.
FLASH_SWAP_SPACE_LENGTH == SlotSectors * FLASH_SECTOR_SIZE
\* sizeof(g_ethernet_buf) (2048 in the program), scaled.
ETH_BUF_SIZE == 3
\* Largest receive size the socket reports (its RX memory), beyond the buffer.
RxMax == ETH_BUF_SIZE + 1
\* Resets (power-on included) in one behaviour.
MaxBoots == 3
\* POST connections in one behaviour.
MaxPosts == 1

SlotIdx == 0 .. (FLASH_SWAP_SPACE_LENGTH - 1)
ERASED == 255

\* Firmware images: image v has byte 16 * v + k at offset k, so every byte
\* names its image and its offset.  Image 1 is the image the device ships with.
Image(v) == [k \in SlotIdx |-> 16 * v + k]
FactoryImage == Image(1)
ErasedSlot == [k \in SlotIdx |-> ERASED]

RECURSIVE BitAnd(_, _)
BitAnd(a, b) ==
    IF a = 0 \/ b = 0 THEN 0
    ELSE (a % 2) * (b % 2) + 2 * BitAnd(a \div 2, b \div 2)

\* An erase that does nothing: the sector is programmed over its old content.
flash_range_erase_skipped(slot, off, len) == slot

\* flash_range_erase(offset, len): every byte of the range becomes 0xFF.
flash_range_erase(slot, off, len) ==
    [k \in SlotIdx |-> IF off <= k /\ k < off + len THEN ERASED ELSE slot[k]]

\* flash_range_program(offset, buf, len): NOR flash can only clear bits.
flash_range_program(slot, off, buf, len) ==
    [k \in SlotIdx |->
        IF off <= k /\ k < off + len THEN BitAnd(slot[k], buf[k - off]) ELSE slot[k]]

\* memcpy of one sector into a RAM buffer indexed from 0.
ReadSector(slot, i) ==
    [k \in 0 .. (FLASH_SECTOR_SIZE - 1) |-> slot[i * FLASH_SECTOR_SIZE + k]]

\* A sector swap that programs each slot with its own buffer (no exchange).
SwapSectorNoExchange(fl, i) ==
    LET fromDl  == ReadSector(fl.dl, i)
        fromApp == ReadSector(fl.app, i)
        off     == i * FLASH_SECTOR_SIZE
    IN [app |-> flash_range_program(flash_range_erase(fl.app, off, FLASH_SECTOR_SIZE),
                                    off, fromApp, FLASH_SECTOR_SIZE),
        dl  |-> flash_range_program(flash_range_erase(fl.dl, off, FLASH_SECTOR_SIZE),
                                    off, fromApp, FLASH_SECTOR_SIZE)]

\* A sector swap with one RAM buffer for both sectors: what was read from
\* APP is overwritten by what is read from DOWNLOAD before it is programmed.
SwapSectorOneBuffer(fl, i) ==
    LET fromDl  == ReadSector(fl.dl, i)
        off     == i * FLASH_SECTOR_SIZE
    IN [app |-> flash_range_program(flash_range_erase(fl.app, off, FLASH_SECTOR_SIZE),
                                    off, fromDl, FLASH_SECTOR_SIZE),
        dl  |-> flash_range_program(flash_range_erase(fl.dl, off, FLASH_SECTOR_SIZE),
                                    off, fromDl, FLASH_SECTOR_SIZE)]

\* One iteration of the loop of swap_images.
SwapSector(fl, i) ==
    LET fromDl  == ReadSector(fl.dl, i)
        fromApp == ReadSector(fl.app, i)
        off     == i * FLASH_SECTOR_SIZE
    IN [app |-> flash_range_program(flash_range_erase(fl.app, off, FLASH_SECTOR_SIZE),
                                    off, fromDl, FLASH_SECTOR_SIZE),
        dl  |-> flash_range_program(flash_range_erase(fl.dl, off, FLASH_SECTOR_SIZE),
                                    off, fromApp, FLASH_SECTOR_SIZE)]

\* SWAP_ITERATIONS of swap_images, from the persisted swap size.
SWAP_ITERATIONS(swap_size) ==
    LET sz == IF swap_size = 0 \/ swap_size > FLASH_SWAP_SPACE_LENGTH
              THEN FLASH_SWAP_SPACE_LENGTH ELSE swap_size
    IN sz \div FLASH_SECTOR_SIZE

RECURSIVE SwapLoop(_, _, _)
SwapLoop(fl, i, n) == IF i < n THEN SwapLoop(SwapSector(fl, i), i + 1, n) ELSE fl

\* swap_images: the flash after the call.
swap_images(fl, swap_size) == SwapLoop(fl, 0, SWAP_ITERATIONS(swap_size))

(***************************************************************************)
(* The metadata store of the info sector.  Only the declarations of these  *)
(* functions are in the sources (lines 60-67); their effect is taken from  *)
(* the specification's section 4.B / 6 and from their names.               *)
(***************************************************************************)
InfoFresh == [hnf |-> FALSE, ar |-> FALSE, sr |-> FALSE, fts |-> FALSE, sz |-> 0]

_pfb_mark_pico_has_new_firmware(info) == [info EXCEPT !.hnf = TRUE]
_pfb_mark_pico_has_no_new_firmware(info) == [info EXCEPT !.hnf = FALSE]
_pfb_mark_is_after_rollback(info) == [info EXCEPT !.ar = TRUE]
_pfb_mark_is_not_after_rollback(info) == [info EXCEPT !.ar = FALSE]
_pfb_mark_should_rollback(info) == [info EXCEPT !.sr = TRUE]
pfb_firmware_commit(info) == [info EXCEPT !.sr = FALSE]
_pfb_should_rollback(info) == info.sr
_pfb_has_firmware_to_swap(info) == info.fts
_pfb_firmware_swap_size(info) == info.sz
pfb_is_after_firmware_update(info) == info.hnf
pfb_is_after_rollback(info) == info.ar
pfb_mark_download_slot_as_valid(info, size) == [info EXCEPT !.fts = TRUE, !.sz = size]
pfb_mark_download_slot_as_invalid(info) == [info EXCEPT !.fts = FALSE]

\* pfb_initialize_download_slot: the whole download slot is erased.
pfb_initialize_download_slot(slot) ==
    flash_range_erase(slot, 0, FLASH_SWAP_SPACE_LENGTH)

\* pfb_write_to_flash_aligned_256_bytes: ret is nonzero, and nothing is
\* written, when the length is not page aligned or the range leaves the slot.
WriteFails(off, n) ==
    n % PFB_ALIGN_SIZE # 0 \/ off + n > FLASH_SWAP_SPACE_LENGTH
pfb_write_to_flash_aligned_256_bytes(slot, buf, off, n) ==
    IF WriteFails(off, n) THEN slot ELSE flash_range_program(slot, off, buf, n)

\* The first n bytes of a slot, as a sequence.
Prefix(slot, n) == [k \in 1 .. n |-> slot[k - 1]]

\* SHA-256, idealised as collision free: the digest of a byte string is
\* represented by the string it was computed from.
SHA256(bytes) == <<"sha256", bytes>>

\* pfb_firmware_sha256_check(n): 0 when the digest of the first n bytes of the
\* download slot is the stored digest.
pfb_firmware_sha256_check(slot, n, stored) ==
    IF n <= FLASH_SWAP_SPACE_LENGTH /\ SHA256(Prefix(slot, n)) = stored THEN 0 ELSE 1

(***************************************************************************)
(* The boot decision of main and the flag effects of its three branches.   *)
(***************************************************************************)
\* The if-chain with the two tests exchanged.
BootActionSwapFirst(info) ==
    IF _pfb_has_firmware_to_swap(info) THEN "SwapAndArm"
    ELSE IF _pfb_should_rollback(info) THEN "Rollback"
    ELSE "Passthrough"

BootAction(info) ==
    IF _pfb_should_rollback(info) THEN "Rollback"
    ELSE IF _pfb_has_firmware_to_swap(info) THEN "SwapAndArm"
    ELSE "Passthrough"

\* The recovery trigger of the flag-union variant.
FlagTrigger(info) ==
    _pfb_should_rollback(info) \/ _pfb_has_firmware_to_swap(info)
        \/ pfb_is_after_firmware_update(info) \/ pfb_is_after_rollback(info)

\* The trigger without the second sampling.
GpioTriggerNoResample(g0, g8, g0b, g8b) == ~g0 \/ ~g8

\* The recovery trigger of the GPIO variant: both lines are sampled, and
\* sampled again after the four seconds of LED blinking when one was low.
GpioTrigger(g0, g8, g0b, g8b) ==
    IF ~g0 \/ ~g8 THEN ~g0b \/ ~g8b ELSE FALSE

\* What main read from the two lines: the levels (TRUE is high) of pins 0 and
\* 8 at the first sampling, and at the second one when it took place.
NoPins == [first |-> <<>>, second |-> <<>>]
Sampled(g0, g8, g0b, g8b) ==
    [first |-> <<g0, g8>>, second |-> IF ~g0 \/ ~g8 THEN <<g0b, g8b>> ELSE <<>>]

\* Rollback that leaves should_rollback set.
RollbackInfoNoCommit(info) ==
    pfb_mark_download_slot_as_invalid(
        _pfb_mark_is_after_rollback(_pfb_mark_pico_has_no_new_firmware(info)))

\* Rollback that leaves has_new_firmware as it was.
RollbackInfoKeepsNew(info) ==
    pfb_mark_download_slot_as_invalid(
        _pfb_mark_is_after_rollback(pfb_firmware_commit(info)))

\* Rollback that forgets to record the rollback.
RollbackInfoNoMark(info) ==
    pfb_mark_download_slot_as_invalid(
        _pfb_mark_pico_has_no_new_firmware(pfb_firmware_commit(info)))

RollbackInfo(info) ==
    pfb_mark_download_slot_as_invalid(
        _pfb_mark_is_after_rollback(
            _pfb_mark_pico_has_no_new_firmware(pfb_firmware_commit(info))))

\* Swap-and-arm that leaves the download slot marked valid.
SwapAndArmInfoKeepsValid(info) ==
    _pfb_mark_should_rollback(
        _pfb_mark_is_not_after_rollback(_pfb_mark_pico_has_new_firmware(info)))

\* Swap-and-arm that does not arm.
SwapAndArmInfoNoArm(info) ==
    pfb_mark_download_slot_as_invalid(
        _pfb_mark_is_not_after_rollback(_pfb_mark_pico_has_new_firmware(info)))

SwapAndArmInfo(info) ==
    pfb_mark_download_slot_as_invalid(
        _pfb_mark_should_rollback(
            _pfb_mark_is_not_after_rollback(_pfb_mark_pico_has_new_firmware(info))))

\* Passthrough that leaves has_new_firmware as it was.
PassthroughInfoKeepsNew(info) ==
    pfb_mark_download_slot_as_invalid(pfb_firmware_commit(info))

PassthroughInfo(info) ==
    pfb_mark_download_slot_as_invalid(
        _pfb_mark_pico_has_no_new_firmware(pfb_firmware_commit(info)))

\* Swap-and-commit without the commit.
SwapAndCommitInfoNoCommit(info) ==
    pfb_mark_download_slot_as_invalid(
        _pfb_mark_is_not_after_rollback(_pfb_mark_pico_has_no_new_firmware(info)))

\* Swap-and-commit of the GPIO variant, after pfb_mark_download_slot_as_valid.
SwapAndCommitInfo(info) ==
    pfb_mark_download_slot_as_invalid(
        _pfb_mark_is_not_after_rollback(
            _pfb_mark_pico_has_no_new_firmware(pfb_firmware_commit(info))))

(***************************************************************************)
(* State.                                                                  *)
(***************************************************************************)
VARIABLES
    variant,        \* "gpio" (src/unnamed/part_000) or "flags" (src/bootloader.c)
    pc,             \* "reset", "decide", "listen", "post", "app", "fault"
    boots, posts,   \* resets and POST connections so far
    app, dl,        \* the APP and DOWNLOAD slots
    info,           \* the metadata record of the info sector
    upload_buffer, upload_pos,  \* static locals of the POST handler
    upload_done, len, data,     \* locals of the POST handler
    contact, expired,           \* flag-union variant: contact, and WAIT elapsed
    sock, rxq, peer,            \* socket 1, its receive queue, bytes the peer still sends
    \* history variables
    last,           \* the last step of the program or of the application
    acts,           \* boot actions performed since the last reset
    boot,           \* what the last reset sampled
    nswapped,       \* sectors exchanged by the last swap_images
    req,            \* the request of the current connection
    ing,            \* how the last POST ingestion ended
    staged,         \* the bytes last marked valid for installation
    installed,      \* the staged bytes this boot installed
    arm,            \* the last Swap-and-arm, what it found and what followed it
    \* the surroundings of a behaviour, fixed from its first state on
    world,          \* POST connections the peers make, flash writes that fail
    \* swap_images and the network bring-up, step by step
    swp,            \* position in swap_images, its locals, the interrupt mask
    dhcp            \* position in the DHCP loops, their locals, the outcome

vars == <<variant, pc, boots, posts, app, dl, info, upload_buffer,
          upload_pos, upload_done, len, data, contact, expired, sock, rxq, peer,
          last, acts, boot, nswapped, req, ing, staged, installed, arm,
          world, swp, dhcp>>

flashVars == <<app, dl>>
postVars == <<upload_buffer, upload_pos, upload_done, len, data>>
netVars == <<sock, rxq, peer>>
histVars == <<last, acts, boot, nswapped, req, ing, staged, installed, arm>>

\* Stream elements that are not body bytes: a complete request head each.
POST_HEAD == -1        \* "POST /upload HTTP/1.1 ... \r\n\r\n"
GET_HEAD == -2         \* "GET / HTTP/1.1 ... \r\n\r\n"
GET_RECOVER_HEAD == -3 \* "GET /recover HTTP/1.1 ... \r\n\r\n"
POST_OPEN == -4        \* "POST /upload HTTP/1.1 ..." with no "\r\n\r\n"
GET_REBOOT_UPPER == -5 \* "GET /REBOOT HTTP/1.1 ... \r\n\r\n"
GET_REBOOT_LOWER == -6 \* "GET /reboot HTTP/1.1 ... \r\n\r\n"
GET_REBOOT_MIXED == -7 \* "GET /Reboot HTTP/1.1 ... \r\n\r\n"

\* The request heads that contain "GET", and the path each one asks for.
GetHeads == {GET_HEAD, GET_RECOVER_HEAD, GET_REBOOT_UPPER, GET_REBOOT_LOWER,
             GET_REBOOT_MIXED}
PathOf(head) ==
    CASE head = GET_RECOVER_HEAD -> "/recover"
      [] head = GET_REBOOT_UPPER -> "/REBOOT"
      [] head = GET_REBOOT_LOWER -> "/reboot"
      [] head = GET_REBOOT_MIXED -> "/Reboot"
      [] OTHER -> "/"
HeadOf(kind) ==
    CASE kind = "POST" -> POST_HEAD
      [] kind = "POST open" -> POST_OPEN
      [] kind = "GET /recover" -> GET_RECOVER_HEAD
      [] kind = "GET /REBOOT" -> GET_REBOOT_UPPER
      [] kind = "GET /reboot" -> GET_REBOOT_LOWER
      [] kind = "GET /Reboot" -> GET_REBOOT_MIXED
      [] OTHER -> GET_HEAD
RebootKinds == {"GET /REBOOT", "GET /reboot", "GET /Reboot"}

\* A reboot test that folds the case of the path first.
StrStrRebootAnyCase(path) == path \in {"/REBOOT", "/reboot", "/Reboot"}
\* strstr(buf, "REBOOT") != NULL || strstr(buf, "reboot") != NULL: the two
\* spellings are matched byte for byte.
StrStrReboot(path) == path = "/REBOOT" \/ path = "/reboot"
\* A byte of memory outside g_ethernet_buf (no image has it, no erase gives it).
JUNK == 250

ZeroBuffer == [k \in 0 .. (PFB_ALIGN_SIZE - 1) |-> 0]
NoReq == [kind |-> "none", body |-> <<>>, pos0 |-> 0, failed |-> FALSE]
NoIng == [ended |-> FALSE, done |-> 0, verified |-> FALSE, body |-> <<>>,
          good |-> FALSE, pos0 |-> 0, unread |-> 0, kind |-> "none"]
NoBoot == [booted |-> FALSE, recover |-> FALSE, pins |-> NoPins]
NoArm == [state |-> "none", app |-> ErasedSlot, dl |-> ErasedSlot,
          was |-> InfoFresh, resets |-> 0]

\* The surroundings the main specification takes: MaxPosts POST connections,
\* and a flash that programs every page it is asked to.
NoWorld == [posts |-> MaxPosts, failing |-> {}]
\* swap_images not running, interrupts enabled.
NoSwp == [pos |-> "idle", i |-> 0, n |-> 0, irq |-> "enabled", saved |-> "enabled",
          restores |-> 0, from_dl |-> <<>>, from_app |-> <<>>]
\* The network bring-up not running.
NoDhcp == [pos |-> "idle", tries |-> 0, wait |-> 0, attempts |-> 0, polls |-> 0,
           leased |-> FALSE, applied |-> <<>>]

Min(a, b) == IF a < b THEN a ELSE b
Take(seq, n) == SubSeq(seq, 1, n)
Drop(seq, n) == SubSeq(seq, n + 1, Len(seq))
Has(seq, x) == \E i \in 1 .. Len(seq) : seq[i] = x
\* strstr(buf, "GET") and the reboot test, on a received buffer.
HasGet(buf) == \E i \in 1 .. Len(buf) : buf[i] \in GetHeads
HasReboot(buf) ==
    \E i \in 1 .. Len(buf) : buf[i] \in GetHeads /\ StrStrReboot(PathOf(buf[i]))

Init ==
    /\ variant \in {"gpio", "flags"}
    /\ pc = "reset"
    /\ boots = 0 /\ posts = 0
    /\ app = FactoryImage /\ dl = ErasedSlot
    /\ info = InfoFresh
    /\ upload_buffer = ZeroBuffer /\ upload_pos = 0
    /\ upload_done = 0 /\ len = 0 /\ data = <<>>
    /\ contact = FALSE /\ expired = FALSE
    /\ sock = "off" /\ rxq = <<>> /\ peer = <<>>
    /\ last = "none" /\ acts = <<>> /\ boot = NoBoot /\ nswapped = 0
    /\ req = NoReq /\ ing = NoIng /\ staged = <<>> /\ installed = <<>>
    /\ arm = NoArm
    /\ world = NoWorld /\ swp = NoSwp /\ dhcp = NoDhcp

\* A reset: RAM (the static locals of main included), the socket and the
\* history of the boot are as after power-on.
Restart ==
    /\ boots < MaxBoots
    /\ pc' = "reset"
    /\ upload_buffer' = ZeroBuffer /\ upload_pos' = 0
    /\ upload_done' = 0 /\ len' = 0 /\ data' = <<>>
    /\ contact' = FALSE /\ expired' = FALSE
    /\ sock' = "off" /\ rxq' = <<>> /\ peer' = <<>>
    /\ acts' = <<>> /\ boot' = NoBoot /\ nswapped' = 0
    /\ req' = NoReq /\ installed' = <<>>

\* The hand-off: the application runs, and what the bootloader kept in RAM
\* and in the socket is gone.
HandOff ==
    /\ pc' = "app"
    /\ upload_buffer' = ZeroBuffer /\ upload_pos' = 0
    /\ upload_done' = 0 /\ len' = 0 /\ data' = <<>>
    /\ contact' = FALSE /\ expired' = FALSE
    /\ sock' = "off" /\ rxq' = <<>> /\ peer' = <<>>
    /\ req' = NoReq

(***************************************************************************)
(* main, from reset to the boot decision or to the recovery server.        *)
(***************************************************************************)
\* RAM is initialised, the trigger is evaluated; with the trigger set the
\* server listens on socket 1, without it main goes on to the if-chain.
PowerOn(g0, g8, g0b, g8b) ==
    /\ pc = "reset"
    /\ boots' = boots + 1
    /\ LET recover == IF variant = "gpio" THEN GpioTrigger(g0, g8, g0b, g8b)
                      ELSE FlagTrigger(info)
       IN /\ pc' = IF recover THEN "listen" ELSE "decide"
          /\ sock' = IF recover THEN "listen" ELSE "off"
          /\ acts' = IF recover THEN <<"Recovery">> ELSE <<>>
          /\ boot' = [booted |-> TRUE, recover |-> recover,
                       pins |-> IF variant = "gpio" THEN Sampled(g0, g8, g0b, g8b)
                                ELSE NoPins]
    /\ arm' = IF arm.state = "none" THEN arm
              ELSE [arm EXCEPT !.resets = Min(2, arm.resets + 1)]
    /\ last' = "PowerOn"
    /\ UNCHANGED <<variant, world, swp, dhcp, posts, app, dl, info, postVars, contact,
                   expired, rxq, peer, nswapped, req, ing, staged, installed>>

\* if (_pfb_should_rollback()) { swap_images(); ... } and the hand-off.
Rollback ==
    /\ pc = "decide"
    /\ BootAction(info) = "Rollback"
    /\ LET fl == swap_images([app |-> app, dl |-> dl], _pfb_firmware_swap_size(info))
       IN app' = fl.app /\ dl' = fl.dl
    /\ nswapped' = SWAP_ITERATIONS(_pfb_firmware_swap_size(info))
    /\ info' = RollbackInfo(info)
    /\ HandOff /\ ing' = NoIng
    /\ last' = "Rollback" /\ acts' = Append(acts, "Rollback")
    /\ staged' = <<>>
    /\ arm' = IF arm.state \in {"armed", "restaged"} /\ arm.resets = 1
              THEN [arm EXCEPT !.state = IF arm.state = "armed" THEN "rolledback"
                                         ELSE "rolledback_restaged"]
              ELSE NoArm
    /\ boot' = [boot EXCEPT !.pins = NoPins]
    /\ UNCHANGED <<variant, world, swp, dhcp, boots, posts, installed>>

\* else if (_pfb_has_firmware_to_swap()) { swap_images(); ... } and the hand-off.
SwapAndArm ==
    /\ pc = "decide"
    /\ BootAction(info) = "SwapAndArm"
    /\ LET fl == swap_images([app |-> app, dl |-> dl], _pfb_firmware_swap_size(info))
       IN app' = fl.app /\ dl' = fl.dl
    /\ nswapped' = SWAP_ITERATIONS(_pfb_firmware_swap_size(info))
    /\ info' = SwapAndArmInfo(info)
    /\ HandOff /\ ing' = NoIng
    /\ last' = "SwapAndArm" /\ acts' = Append(acts, "SwapAndArm")
    /\ installed' = staged /\ staged' = <<>>
    /\ arm' = [state |-> "armed", app |-> app, dl |-> dl, was |-> info,
               resets |-> 0]
    /\ boot' = [boot EXCEPT !.pins = NoPins]
    /\ UNCHANGED <<variant, world, swp, dhcp, boots, posts>>

\* else { pfb_firmware_commit(); ... } and the hand-off.
Passthrough ==
    /\ pc = "decide"
    /\ BootAction(info) = "Passthrough"
    /\ info' = PassthroughInfo(info)
    /\ HandOff /\ ing' = NoIng
    /\ last' = "Passthrough" /\ acts' = Append(acts, "Passthrough")
    /\ staged' = <<>>
    /\ arm' = IF arm.state = "committed" THEN [NoArm EXCEPT !.state = "committed"]
              ELSE NoArm
    /\ boot' = [boot EXCEPT !.pins = NoPins]
    /\ UNCHANGED <<variant, world, swp, dhcp, boots, posts, app, dl, nswapped, installed>>

(***************************************************************************)
(* The running application and the outside world.                          *)
(***************************************************************************)
\* The application confirms a healthy boot: pfb_firmware_commit().
AppCommit ==
    /\ pc = "app"
    /\ _pfb_should_rollback(info)
    /\ info' = pfb_firmware_commit(info)
    /\ last' = "AppCommit"
    /\ arm' = IF arm.state = "none" THEN arm ELSE [arm EXCEPT !.state = "committed"]
    /\ UNCHANGED <<variant, world, swp, dhcp, pc, boots, posts, app, dl, postVars, contact,
                   expired, netVars, acts, boot, nswapped, req, ing, staged, installed>>

\* The sizes the application stages: one sector and a byte, the whole slot.
StageSizes == {FLASH_SECTOR_SIZE + 1, FLASH_SWAP_SPACE_LENGTH}

\* The body lengths a peer posts: one page and a byte, the whole slot.
BodyLens == {PFB_ALIGN_SIZE + 1, FLASH_SWAP_SPACE_LENGTH}

\* The sizes of the segments the network delivers: a single byte (so that the
\* request line arrives alone), a full receive buffer, more than the buffer.
SegmentSizes == {1, ETH_BUF_SIZE, RxMax}

\* The n bytes of image v as the application writes them: whole pages, the
\* last one padded with zero bytes, into the erased download slot.
StagedSlot(v, n) ==
    [k \in SlotIdx |->
        IF k < n THEN Image(v)[k]
        ELSE IF k < ((n + PFB_ALIGN_SIZE - 1) \div PFB_ALIGN_SIZE) * PFB_ALIGN_SIZE THEN 0
        ELSE ERASED]

\* What a new pfb_perform_update() makes of the record of the last
\* Swap-and-arm: an armed image has an update staged over it, and a committed
\* one is about to be replaced.
Restaged(a) ==
    IF a.state = "armed" THEN [a EXCEPT !.state = "restaged"]
    ELSE IF a.state = "committed" THEN NoArm
    ELSE a

\* The application stages an image of n bytes (pfb_initialize_download_slot,
\* pfb_write_to_flash_aligned_256_bytes, pfb_mark_download_slot_as_valid(n))
\* and calls pfb_perform_update(), which resets the device.
AppPerformUpdate(n) ==
    /\ pc = "app"
    /\ dl' = StagedSlot(1 + boots, n)
    /\ info' = pfb_mark_download_slot_as_valid(info, n)
    /\ staged' = Prefix(Image(1 + boots), n)
    /\ Restart
    /\ last' = "AppPerformUpdate"
    /\ ing' = NoIng
    /\ arm' = Restaged(arm)
    /\ UNCHANGED <<variant, world, swp, dhcp, boots, posts, app>>

\* A reset from outside (power cycle, reset line) while the application or
\* the recovery server runs.
ExternalReset ==
    /\ pc \in {"app", "fault"} \/ (pc = "listen" /\ sock = "listen")
    /\ Restart
    /\ last' = "ExternalReset"
    /\ ing' = NoIng
    /\ UNCHANGED <<variant, world, swp, dhcp, boots, posts, app, dl, info, staged, arm>>

\* A peer opens a connection to the listening server and will send a request:
\* a GET (of /recover where the path matters, in the flag-union variant; of a
\* reboot path in one of three spellings where that matters, in the GPIO one), a
\* POST whose body is the first L bytes of a new image, or a POST that never
\* sends the blank line that ends its headers.
Connect(kind, L) ==
    /\ pc = "listen" /\ sock = "listen"
    /\ kind \in {"POST", "POST open"} => posts < world.posts
    /\ kind # "POST" => L = FLASH_SWAP_SPACE_LENGTH
    /\ kind = "GET /recover" => variant = "flags"
    /\ kind \in RebootKinds => variant = "gpio"
    /\ StrStrReboot(PathOf(HeadOf(kind))) => boots < MaxBoots
    /\ LET body == IF kind = "POST" THEN Prefix(Image(8 + posts), L) ELSE <<>>
           head == HeadOf(kind)
       IN /\ peer' = <<head>> \o body
          /\ req' = [kind |-> kind, body |-> body, pos0 |-> 0, failed |-> FALSE]
    /\ sock' = "estab" /\ rxq' = <<>>
    /\ posts' = IF kind \in {"POST", "POST open"} THEN posts + 1 ELSE posts
    /\ last' = "Connect" /\ ing' = NoIng
    /\ boot' = [boot EXCEPT !.pins = NoPins]
    /\ UNCHANGED <<variant, world, swp, dhcp, pc, boots, app, dl, info, postVars, contact,
                   expired, acts, nswapped, staged, installed, arm>>

\* The next k bytes the peer sent arrive in the (drained) receive queue of the
\* socket.
NetDeliver(k) ==
    /\ sock = "estab"
    /\ rxq = <<>>
    /\ peer # <<>>
    /\ rxq' = rxq \o Take(peer, Min(k, Len(peer)))
    /\ peer' = Drop(peer, Min(k, Len(peer)))
    /\ UNCHANGED <<variant, world, swp, dhcp, pc, boots, posts, app, dl, info, postVars,
                   contact, expired, sock, histVars>>

(***************************************************************************)
(* The recovery server: one iteration of its loop up to the request, the   *)
(* iterations of the ingestion loop of a POST, and the end of a POST.      *)
(***************************************************************************)
\* The bytes the server asks recv for when the socket reports rsr pending.
RecvLen(rsr) == IF rsr > ETH_BUF_SIZE THEN ETH_BUF_SIZE - 1 ELSE rsr

\* The indices of g_ethernet_buf.
EthBufIdx == 0 .. (ETH_BUF_SIZE - 1)

\* What the image holds in the byte that follows g_ethernet_buf: a byte the
\* model does not hold, or the first byte of one of the two other statics of
\* main (upload_pos is below 256, so clearing its low byte clears it).
PastBytes == {"other", "upload_buffer", "upload_pos"}

\* g_ethernet_buf[len] = 0 after recv returned len bytes: inside the buffer
\* the store changes nothing the model holds (the request ends there); at
\* len = sizeof(g_ethernet_buf) it clears the byte that follows the buffer.
StoreTerminator(n) ==
    \E past \in PastBytes :
        /\ upload_buffer' = IF n \notin EthBufIdx /\ past = "upload_buffer"
                            THEN [upload_buffer EXCEPT ![0] = 0] ELSE upload_buffer
        /\ upload_pos' = IF n \notin EthBufIdx /\ past = "upload_pos"
                         THEN 0 ELSE upload_pos

\* The loop condition reads the clock: ex tells whether WAIT microseconds have
\* passed since the loop started (once passed, they have passed).  The GPIO
\* variant reads no clock.
TimeRead(ex) ==
    /\ expired => ex
    /\ variant = "gpio" => ex = expired
    /\ expired' = ex

\* Where the loop goes after an iteration: the GPIO variant loops for ever,
\* the flag-union variant while WAIT has not elapsed or contact was made.
LoopAgainForever(ex, ct) == TRUE
\* The loop condition without the contact flag.
LoopAgainNoContact(ex, ct) == variant = "gpio" \/ ~ex
LoopAgain(ex, ct) == variant = "gpio" \/ ~ex \/ ct
AfterIteration(ex, ct) == IF LoopAgain(ex, ct) THEN "listen" ELSE "decide"

\* Nothing was received within the wait of this iteration: continue.  The
\* next iteration opens the socket anew, which drops a peer that connected
\* and has not sent yet.
ServerIdle(ex) ==
    /\ pc = "listen" /\ Len(rxq) = 0
    /\ TimeRead(ex)
    /\ pc' = AfterIteration(ex, contact)
    /\ sock = "estab" \/ pc' = "decide"
    /\ sock' = IF pc' = "listen" THEN "listen" ELSE "off"
    /\ rxq' = <<>> /\ peer' = <<>>
    /\ ing' = NoIng
    /\ last' = "ServerIdle" /\ req' = NoReq
    /\ UNCHANGED <<variant, world, swp, dhcp, boots, posts, app, dl, info, postVars, contact,
                   acts, boot, nswapped, staged, installed, arm>>

\* A request was received and it is a GET the variant answers: the page is
\* sent and the socket is closed.
ServerGet(ex) ==
    /\ pc = "listen" /\ Len(rxq) > 0
    /\ LET buf == Take(rxq, RecvLen(Len(rxq)))
       IN IF variant = "gpio" THEN HasGet(buf) /\ ~HasReboot(buf)
          ELSE Has(buf, GET_RECOVER_HEAD)
    /\ contact' = IF variant = "flags" THEN TRUE ELSE contact
    /\ TimeRead(ex)
    /\ pc' = AfterIteration(ex, contact')
    /\ sock' = IF pc' = "listen" THEN "listen" ELSE "off"
    /\ rxq' = <<>> /\ peer' = <<>>
    /\ ing' = [NoIng EXCEPT !.kind = req.kind]
    /\ last' = "ServerGet" /\ req' = NoReq
    /\ StoreTerminator(RecvLen(Len(rxq)))
    /\ UNCHANGED <<variant, world, swp, dhcp, boots, posts, app, dl, info, upload_done, len,
                   data, acts, boot, nswapped, staged, installed, arm>>

\* GPIO variant: a GET was received that holds REBOOT or reboot:
\* watchdog_reboot() resets the device, nothing is sent.
ServerReboot ==
    /\ pc = "listen" /\ Len(rxq) > 0
    /\ variant = "gpio"
    /\ LET buf == Take(rxq, RecvLen(Len(rxq)))
       IN HasGet(buf) /\ HasReboot(buf)
    /\ Restart
    /\ ing' = [NoIng EXCEPT !.kind = req.kind]
    /\ last' = "ServerReboot"
    /\ UNCHANGED <<variant, world, swp, dhcp, boots, posts, app, dl, info, staged, arm>>

\* A request was received that the variant does not recognise (in the
\* flag-union variant, a GET of another path): nothing is sent.
ServerOther(ex) ==
    /\ pc = "listen" /\ Len(rxq) > 0
    /\ variant = "flags"
    /\ LET buf == Take(rxq, RecvLen(Len(rxq)))
       IN ~Has(buf, GET_RECOVER_HEAD) /\ ~Has(buf, POST_HEAD) /\ ~Has(buf, POST_OPEN)
    /\ TimeRead(ex)
    /\ pc' = AfterIteration(ex, contact)
    /\ sock' = IF pc' = "listen" THEN "listen" ELSE "off"
    /\ rxq' = <<>> /\ peer' = <<>>
    /\ ing' = NoIng
    /\ last' = "ServerOther" /\ req' = NoReq
    /\ StoreTerminator(RecvLen(Len(rxq)))
    /\ UNCHANGED <<variant, world, swp, dhcp, boots, posts, app, dl, info, upload_done, len,
                   data, contact, acts, boot, nswapped, staged, installed, arm>>

\* A POST was received: the body starts after the head, the download slot is
\* initialised (what was staged in it is gone) and the ingestion loop is
\* entered with what the first chunk held.
PostStart ==
    /\ pc = "listen" /\ Len(rxq) > 0
    /\ LET n   == RecvLen(Len(rxq))
           buf == Take(rxq, n)
       IN /\ Has(buf, POST_HEAD)
          /\ ~Has(buf, GET_HEAD) /\ ~Has(buf, GET_RECOVER_HEAD)
          /\ data' = Drop(buf, 1)
          /\ len' = n - 1
          /\ rxq' = Drop(rxq, n)
    /\ dl' = pfb_initialize_download_slot(dl)
    /\ upload_done' = 0
    /\ pc' = "post"
    /\ last' = "PostStart"
    /\ StoreTerminator(RecvLen(Len(rxq)))
    /\ req' = [req EXCEPT !.pos0 = upload_pos']
    /\ staged' = <<>>
    /\ arm' = IF arm.state = "armed" THEN [arm EXCEPT !.state = "restaged"] ELSE arm
    /\ UNCHANGED <<variant, world, swp, dhcp, boots, posts, app, info, contact, expired,
                   sock, peer, acts, boot, nswapped, ing, installed>>

\* What strstr(buf, "\r\n\r\n") + 4 with no terminator in the first chunk
\* can lead to: data is the null pointer plus 4 and len is computed from it.
\* Either len is not positive and the loop is skipped, or the loop reads
\* bytes that are not in the receive buffer, or such a read faults.
WildOutcomes == {"skip", "read", "fault"}

\* A POST was received whose first chunk has no header terminator: the
\* download slot is initialised all the same and the loop is entered with the
\* wild data pointer and length.
PostStartNoTerminator(outcome) ==
    /\ pc = "listen" /\ Len(rxq) > 0
    /\ LET n   == RecvLen(Len(rxq))
           buf == Take(rxq, n)
       IN /\ Has(buf, POST_OPEN) /\ ~Has(buf, POST_HEAD)
          /\ ~Has(buf, GET_HEAD) /\ ~Has(buf, GET_RECOVER_HEAD)
          /\ rxq' = Drop(rxq, n)
    /\ data' = IF outcome = "read" THEN [k \in 1 .. PFB_ALIGN_SIZE |-> JUNK] ELSE <<>>
    /\ len' = IF outcome = "read" THEN PFB_ALIGN_SIZE ELSE 0
    /\ dl' = pfb_initialize_download_slot(dl)
    /\ upload_done' = 0
    /\ pc' = IF outcome = "fault" THEN "fault" ELSE "post"
    /\ last' = "PostStartNoTerminator"
    /\ StoreTerminator(RecvLen(Len(rxq)))
    /\ req' = [req EXCEPT !.pos0 = upload_pos']
    /\ staged' = <<>>
    /\ arm' = IF arm.state = "armed" THEN [arm EXCEPT !.state = "restaged"] ELSE arm
    /\ UNCHANGED <<variant, world, swp, dhcp, boots, posts, app, info, contact, expired,
                   sock, peer, acts, boot, nswapped, ing, installed>>

\* One iteration of while (len > 0): bytes are copied into upload_buffer, a
\* full buffer is written at upload_done (ret tells that the write reported a
\* failure: a range the library refuses, or a page the flash does not
\* program), and when the chunk is used up the socket is polled for the next
\* one.
PostIter ==
    /\ pc = "post" /\ len > 0
    /\ LET take == Min(len, PFB_ALIGN_SIZE - upload_pos)
           buf1 == [k \in 0 .. (PFB_ALIGN_SIZE - 1) |->
                       IF upload_pos <= k /\ k < upload_pos + take
                       THEN data[k - upload_pos + 1] ELSE upload_buffer[k]]
           pos1 == upload_pos + take
           len1 == len - take
           full == pos1 = PFB_ALIGN_SIZE
           rsr  == Len(rxq)
           n    == RecvLen(rsr)
           ret  == full /\ (WriteFails(upload_done, pos1) \/ upload_done \in world.failing)
       IN /\ upload_buffer' = buf1
          /\ dl' = IF full /\ ~ret
                   THEN pfb_write_to_flash_aligned_256_bytes(dl, buf1, upload_done, pos1)
                   ELSE dl
          /\ req' = [req EXCEPT !.failed = req.failed \/ ret]
          /\ upload_done' = IF full THEN upload_done + pos1 ELSE upload_done
          /\ upload_pos' = IF full THEN 0 ELSE pos1
          /\ IF len1 = 0
             THEN /\ len' = IF rsr > 0 THEN n ELSE 0
                  /\ data' = IF rsr > 0 THEN Take(rxq, n) ELSE <<>>
                  /\ rxq' = IF rsr > 0 THEN Drop(rxq, n) ELSE rxq
             ELSE /\ len' = len1
                  /\ data' = Drop(data, take)
                  /\ rxq' = rxq
    /\ last' = "PostIter"
    /\ UNCHANGED <<variant, world, swp, dhcp, pc, boots, posts, app, info, contact, expired,
                   sock, peer, acts, boot, nswapped, ing, staged, installed, arm>>

\* The digest the uploader stored before the verification: that of the body
\* it sends (when it sends one), or another one.
StoredDigest(good) ==
    IF good /\ req.body # <<>> THEN SHA256(req.body) ELSE SHA256(<<POST_HEAD>>)

\* What the end of an ingestion records.
Ingested(ok, good) ==
    [ended |-> TRUE, done |-> upload_done, verified |-> ok, body |-> req.body,
     good |-> good /\ req.body # <<>>, pos0 |-> req.pos0,
     unread |-> Len(rxq) + Len(peer), kind |-> req.kind]

\* The loop has ended and pfb_firmware_sha256_check(upload_done) fails: the
\* socket is closed and the server loop goes on.
PostFail(good, ex) ==
    /\ pc = "post" /\ len = 0
    /\ pfb_firmware_sha256_check(dl, upload_done, StoredDigest(good)) # 0
    /\ ~good => pfb_firmware_sha256_check(dl, upload_done, StoredDigest(TRUE)) = 0
    /\ ing' = Ingested(FALSE, good)
    /\ TimeRead(ex)
    /\ pc' = AfterIteration(ex, contact)
    /\ sock' = IF pc' = "listen" THEN "listen" ELSE "off"
    /\ rxq' = <<>> /\ peer' = <<>>
    /\ last' = "PostFail" /\ req' = NoReq
    /\ UNCHANGED <<variant, world, swp, dhcp, boots, posts, app, dl, info, postVars, contact, acts, boot, nswapped, staged, installed, arm>>

\* GPIO variant, the check passes: the slot is marked valid with upload_done,
\* the images are swapped, the firmware is committed and started.
PostSwapAndCommit ==
    /\ pc = "post" /\ len = 0
    /\ variant = "gpio"
    /\ pfb_firmware_sha256_check(dl, upload_done, StoredDigest(TRUE)) = 0
    /\ LET valid == pfb_mark_download_slot_as_valid(info, upload_done)
           fl    == swap_images([app |-> app, dl |-> dl], _pfb_firmware_swap_size(valid))
       IN /\ app' = fl.app /\ dl' = fl.dl
          /\ nswapped' = SWAP_ITERATIONS(_pfb_firmware_swap_size(valid))
          /\ info' = SwapAndCommitInfo(valid)
    /\ ing' = Ingested(TRUE, TRUE)
    /\ installed' = Prefix(dl, upload_done) /\ staged' = <<>>
    /\ HandOff
    /\ last' = "PostSwapAndCommit" /\ acts' = Append(acts, "SwapAndCommit")
    /\ arm' = NoArm
    /\ boot' = [boot EXCEPT !.pins = NoPins]
    /\ UNCHANGED <<variant, world, swp, dhcp, boots, posts>>

\* Flag-union variant, the check passes: the slot is marked valid with size 0
\* and pfb_perform_update() resets the device.
PostPerformUpdate ==
    /\ pc = "post" /\ len = 0
    /\ variant = "flags"
    /\ pfb_firmware_sha256_check(dl, upload_done, StoredDigest(TRUE)) = 0
    /\ info' = pfb_mark_download_slot_as_valid(info, 0)
    /\ ing' = Ingested(TRUE, TRUE)
    /\ staged' = Prefix(dl, upload_done)
    /\ Restart
    /\ last' = "PostPerformUpdate"
    /\ arm' = Restaged(arm)
    /\ UNCHANGED <<variant, world, swp, dhcp, boots, posts, app, dl>>

Next ==
    \/ \E g0, g8, g0b, g8b \in BOOLEAN : PowerOn(g0, g8, g0b, g8b)
    \/ Rollback
    \/ SwapAndArm
    \/ Passthrough
    \/ AppCommit
    \/ \E n \in StageSizes : AppPerformUpdate(n)
    \/ ExternalReset
    \/ \E kind \in {"GET", "GET /recover", "POST", "POST open"} \cup RebootKinds,
          L \in BodyLens : Connect(kind, L)
    \/ \E k \in SegmentSizes : NetDeliver(k)
    \/ \E ex \in BOOLEAN : ServerIdle(ex)
    \/ \E ex \in BOOLEAN : ServerGet(ex)
    \/ ServerReboot
    \/ \E ex \in BOOLEAN : ServerOther(ex)
    \/ PostStart
    \/ \E outcome \in WildOutcomes : PostStartNoTerminator(outcome)
    \/ PostIter
    \/ \E good, ex \in BOOLEAN : PostFail(good, ex)
    \/ PostSwapAndCommit
    \/ PostPerformUpdate

Spec == Init /\ [][Next]_vars

\* The steps main takes by itself: the start after a reset, the if-chain, the
\* iterations of the server loop and of the ingestion loop.  The peers, the
\* application and the resets from outside are the environment's.
Program ==
    \/ \E g0, g8, g0b, g8b \in BOOLEAN : PowerOn(g0, g8, g0b, g8b)
    \/ Rollback
    \/ SwapAndArm
    \/ Passthrough
    \/ \E ex \in BOOLEAN : ServerIdle(ex)
    \/ \E ex \in BOOLEAN : ServerGet(ex)
    \/ ServerReboot
    \/ \E ex \in BOOLEAN : ServerOther(ex)
    \/ PostStart
    \/ \E outcome \in WildOutcomes : PostStartNoTerminator(outcome)
    \/ PostIter
    \/ \E good, ex \in BOOLEAN : PostFail(good, ex)
    \/ PostSwapAndCommit
    \/ PostPerformUpdate

\* The iteration of the server loop at whose end time_us_64() - start has
\* reached WAIT.
WaitElapses == Program /\ ~expired /\ expired'

\* main runs on: a step it can take is taken, and since every iteration of the
\* server loop takes time, WAIT elapses after finitely many of them.  Nothing
\* is assumed of the environment.
LiveSpec == Spec /\ WF_vars(Program) /\ SF_vars(WaitElapses)

(***************************************************************************)
(* Properties.                                                             *)
(***************************************************************************)
ChainActions == {"Rollback", "SwapAndArm", "Passthrough"}
Swappers == {"Rollback", "SwapAndArm", "PostSwapAndCommit"}
SectorIdx == 0 .. (SlotSectors - 1)

\* A step in which main leaves the bootloader for the application.
HandsOff == pc # "app" /\ pc' = "app"

\* The boot actions of the specification's table among those performed since
\* the last reset.
TableActs == {i \in 1 .. Len(acts) : acts[i] \in ChainActions \cup {"Recovery"}}

\* C1 (as the code has it): a reset performs Recovery exactly when the trigger
\* is set.  Without the trigger it performs exactly one of Rollback,
\* Swap-and-arm, Passthrough: Rollback when should_rollback is set, otherwise
\* Swap-and-arm when there is firmware to swap, otherwise Passthrough.  With
\* the trigger, the GPIO variant performs Recovery only (ended by a
\* Swap-and-commit or a reset); the flag-union variant performs Recovery and,
\* when WAIT has elapsed without contact, goes on to exactly one of the three
\* other actions, chosen by the same priority.
C1_ActsShape ==
    /\ boot.booted /\ ~boot.recover =>
           /\ acts = <<>> \/ (Len(acts) = 1 /\ acts[1] \in ChainActions)
           /\ pc = "app" => Len(acts) = 1
           /\ pc \in {"decide", "app"}
    /\ boot.booted /\ boot.recover /\ variant = "gpio" =>
           /\ acts \in {<<"Recovery">>, <<"Recovery", "SwapAndCommit">>}
           /\ pc = "app" <=> Len(acts) = 2
    /\ boot.booted /\ boot.recover /\ variant = "flags" =>
           /\ acts = <<"Recovery">>
                \/ (Len(acts) = 2 /\ acts[1] = "Recovery" /\ acts[2] \in ChainActions)
           /\ pc = "app" <=> Len(acts) = 2
C1_Priority ==
    HandsOff /\ last' \in ChainActions =>
        /\ last' = "Rollback" <=> info.sr
        /\ last' = "SwapAndArm" <=> ~info.sr /\ info.fts
        /\ last' = "Passthrough" <=> ~info.sr /\ ~info.fts
        /\ boot.recover => variant = "flags" /\ expired /\ ~contact
C1_BootDecision == [](C1_ActsShape) /\ [][C1_Priority]_vars

\* C1, witness: the flag-union variant has performed Recovery and then
\* Rollback in one boot.
C1_Witness ==
    /\ variant = "flags" /\ acts = <<"Recovery", "Rollback">> /\ pc = "app"

\* C1, as stated: no reset performs two of Recovery, Rollback, Swap-and-arm,
\* Passthrough, and a reset that has handed off has performed one.
C1_ExactlyOne ==
    /\ Cardinality(TableActs) <= 1
    /\ pc = "app" => Cardinality(TableActs) = 1

\* C2: after swap_images has swapped n sectors, every sector i < n of APP holds
\* what DOWNLOAD sector i held before and the other way round, and the sectors
\* i >= n of both slots are unchanged.
C2_SectorExchange ==
    HandsOff /\ last' \in Swappers =>
        \A i \in SectorIdx :
            IF i < nswapped'
            THEN /\ ReadSector(app', i) = ReadSector(dl, i)
                 /\ ReadSector(dl', i) = ReadSector(app, i)
            ELSE /\ ReadSector(app', i) = ReadSector(app, i)
                 /\ ReadSector(dl', i) = ReadSector(dl, i)
C2_SwapContract == [][C2_SectorExchange]_vars

\* C2, witness: a swap has exchanged some sectors and left others, and the
\* two slots differ in both parts.
C2_Witness ==
    /\ last \in Swappers /\ pc = "app"
    /\ 0 < nswapped /\ nswapped < SlotSectors
    /\ \A i \in SectorIdx : ReadSector(app, i) # ReadSector(dl, i)

\* ceil(swap_size / S), with the full slot for 0 and for sizes beyond the slot.
CeilSectors(swap_size) ==
    LET sz == IF swap_size = 0 \/ swap_size > FLASH_SWAP_SPACE_LENGTH
              THEN FLASH_SWAP_SPACE_LENGTH ELSE swap_size
    IN (sz + FLASH_SECTOR_SIZE - 1) \div FLASH_SECTOR_SIZE

\* C3, as stated: the number of sectors swapped is the whole slot when the
\* persisted swap_size is 0 or larger than the slot, and ceil(swap_size / S)
\* otherwise.
C3_CeilSectors ==
    last \in Swappers /\ pc = "app" => nswapped = CeilSectors(_pfb_firmware_swap_size(info))

\* C4, as stated: when a staged image of n bytes has been installed, by
\* Swap-and-arm or by Swap-and-commit, the first n bytes of APP at hand-off are
\* the n bytes that were staged.
C4_InstalledPrefix ==
    pc = "app" /\ installed # <<>> /\ last \in {"SwapAndArm", "PostSwapAndCommit"} =>
        Prefix(app, Len(installed)) = installed

\* C5 (as the code has it): after a Swap-and-arm that the application does not
\* commit, the next reset finds should_rollback set; when it reaches the
\* if-chain (at once without the trigger, in the flag-union variant after the
\* window) it performs Rollback; and if the download slot was not rewritten in
\* between (no new image staged, no upload started), APP then holds byte for
\* byte what it held before the Swap-and-arm, after_rollback is true,
\* should_rollback and has_new_firmware are false.
C5_FailOver ==
    /\ arm.state \in {"armed", "restaged"} /\ arm.resets = 1 /\ boot.booted =>
           /\ _pfb_should_rollback(info)
           /\ ~boot.recover => pc = "decide"
           /\ pc = "decide" => BootAction(info) = "Rollback"
    /\ arm.state \in {"rolledback", "rolledback_restaged"} =>
           /\ last = "Rollback" => pc = "app"
           /\ info.ar /\ ~info.sr /\ ~info.hnf
    /\ arm.state = "rolledback" => app = arm.app

\* C5, witness: an uncommitted Swap-and-arm that exchanged sectors was rolled
\* back by the next reset, the trigger being false.
C5_Witness ==
    /\ arm.state = "rolledback" /\ last = "Rollback" /\ ~boot.recover
    /\ nswapped > 0 /\ app # dl

\* C5, as stated: whenever the reset after an uncommitted Swap-and-arm, with
\* the trigger false, has rolled back, APP holds what it held before the
\* Swap-and-arm.
C5_AlwaysRestored ==
    arm.state \in {"rolledback", "rolledback_restaged"} /\ ~boot.recover /\ last = "Rollback" =>
        app = arm.app /\ info.ar /\ ~info.sr /\ ~info.hnf

C7_RollbackFlags ==
    last = "Rollback" =>
        /\ pc = "app"
        /\ ~_pfb_should_rollback(info) /\ ~pfb_is_after_firmware_update(info)
        /\ pfb_is_after_rollback(info) /\ ~_pfb_has_firmware_to_swap(info)

\* C7, witness: a Rollback performed after the download slot was rewritten
\* under the armed image.
C7_Witness == last = "Rollback" /\ arm.state = "rolledback_restaged"

\* C8 (as the code has it): in the GPIO variant a verified recovery upload is
\* followed in the same boot by Swap-and-commit: at hand-off should_rollback,
\* has_new_firmware and after_rollback are false and the download slot is
\* invalid, so the next reset without the trigger is a Passthrough.  In the
\* flag-union variant a verified upload marks the download slot valid with
\* size 0 and resets the device: nothing is swapped and no flag is cleared in
\* that boot.
C8_GpioCommitted ==
    /\ last = "PostSwapAndCommit" =>
           /\ variant = "gpio" /\ pc = "app" /\ ing.verified
           /\ acts = <<"Recovery", "SwapAndCommit">>
           /\ ~_pfb_should_rollback(info) /\ ~pfb_is_after_firmware_update(info)
           /\ ~pfb_is_after_rollback(info) /\ ~_pfb_has_firmware_to_swap(info)
           /\ BootAction(info) = "Passthrough"
    /\ ing.verified /\ variant = "gpio" => last = "PostSwapAndCommit"
C8_FlagsResets ==
    ing'.verified /\ ~ing.verified /\ variant = "flags" =>
        /\ last' = "PostPerformUpdate" /\ pc' = "reset"
        /\ app' = app /\ dl' = dl
        /\ info' = [info EXCEPT !.fts = TRUE, !.sz = 0]
C9_FailStep ==
    last' = "PostFail" /\ pc = "post" =>
        /\ app' = app /\ dl' = dl /\ info' = info
        /\ nswapped' = nswapped /\ acts' = acts
        /\ rxq' = <<>> /\ peer' = <<>> /\ sock' # "estab"
        /\ ~ing'.verified
        /\ IF variant = "gpio" \/ ~expired' \/ contact
           THEN pc' = "listen" /\ sock' = "listen"
           ELSE pc' = "decide"
C10_UploadVerifies ==
    ing.ended /\ ing.good /\ ing.unread = 0 /\ ing.pos0 = 0 =>
        /\ ing.verified
        /\ ing.done = ((Len(ing.body) + PFB_ALIGN_SIZE - 1) \div PFB_ALIGN_SIZE) * PFB_ALIGN_SIZE

\* C11, as stated: an ingestion that has read body bytes and written pages
\* does not end, and the verification is not reached, while the peer of the
\* open connection still has body bytes to send.
C11_IngestsUntilClose == ing.ended /\ ing.done > 0 => ing.unread = 0

\* C12, as stated: while a POST whose first chunk has no header terminator is
\* handled, the server has read no byte from outside the receive buffer, has
\* written none to the download slot and goes on running.
C12_NoTerminatorHarmless ==
    req.kind = "POST open" =>
        /\ pc # "fault"
        /\ ~Has(data, JUNK)
        /\ \A k \in SlotIdx : dl[k] # JUNK

\* C13, as stated: in Recovery the server is never stopped with the socket
\* open and not listening: a connection that is open is in the hands of the
\* server loop (waiting for its request, or ingesting its POST), which closes
\* it and listens again.
C13_ListensAgain == sock = "estab" => pc \in {"listen", "post"}

\* A sampling that found pin 0 or pin 8 low.
AnyLow(levels) == \E i \in 1 .. Len(levels) : ~levels[i]

\* C14, as stated: right after the trigger was evaluated, the GPIO variant is
\* in Recovery exactly when a line was low at the sampling at reset.
C14_LowAtReset ==
    variant = "gpio" /\ last = "PowerOn" =>
        (boot.recover <=> AnyLow(boot.pins.first))

\* C14, amended: right after the trigger was evaluated, the GPIO variant is in
\* Recovery (the server listens, no boot action was taken) exactly when a line
\* was low at the sampling at reset and a line was low again at the second
\* sampling, whatever the persisted flags are; with both lines high at reset
\* it is not in Recovery but at the boot decision.
C14_GpioRecovery ==
    variant = "gpio" /\ last = "PowerOn" =>
        /\ boot.recover <=> AnyLow(boot.pins.first) /\ AnyLow(boot.pins.second)
        /\ boot.recover <=> pc = "listen" /\ sock = "listen"
        /\ ~boot.recover <=> pc = "decide"
        /\ ~AnyLow(boot.pins.first) => pc = "decide"

\* Witness of C14: pin 8 alone was low at both samplings while the persisted
\* flags ask for a rollback, and the server listens.
C14_Witness ==
    /\ variant = "gpio" /\ last = "PowerOn" /\ pc = "listen"
    /\ boot.pins = [first |-> <<TRUE, FALSE>>, second |-> <<TRUE, FALSE>>]
    /\ BootAction(info) = "Rollback"

\* C15, as stated: in the GPIO variant a GET that was handled ended in the
\* hardware reset, with no page sent, exactly when its text holds "reboot" in
\* some letter case; otherwise the page was sent and the server goes on.
C15_RebootAnyCase ==
    variant = "gpio" /\ last \in {"ServerGet", "ServerReboot"} =>
        /\ last = "ServerReboot" <=> StrStrRebootAnyCase(PathOf(HeadOf(ing.kind)))
        /\ last = "ServerReboot" => pc = "reset"
        /\ last = "ServerGet" => pc = "listen"

\* Sector i of the image, as a slot holds it at sector i.
HoldsSector(slot, image, i) == ReadSector(slot, i) = ReadSector(image, i)

SwapSizes == 0 .. (FLASH_SWAP_SPACE_LENGTH + 1)

\* Slot contents: the factory image, another image, an erased slot, and an
\* image of one sector and a byte staged in an erased slot.
SwapImages == {FactoryImage, Image(2), ErasedSlot, StagedSlot(3, FLASH_SECTOR_SIZE + 1)}

SwapInit ==
    /\ variant \in {"gpio", "flags"}
    /\ pc = "swap"
    /\ boots = 0 /\ posts = 0
    /\ app \in SwapImages /\ dl \in SwapImages
    /\ \E n \in SwapSizes : info = [InfoFresh EXCEPT !.sz = n]
    /\ upload_buffer = ZeroBuffer /\ upload_pos = 0
    /\ upload_done = 0 /\ len = 0 /\ data = <<>>
    /\ contact = FALSE /\ expired = FALSE
    /\ sock = "off" /\ rxq = <<>> /\ peer = <<>>
    /\ last = "none" /\ acts = <<>> /\ boot = NoBoot /\ nswapped = 0
    /\ req = NoReq /\ ing = NoIng /\ staged = <<>> /\ installed = <<>>
    /\ arm = [NoArm EXCEPT !.app = app, !.dl = dl]
    /\ world = NoWorld /\ swp = NoSwp /\ dhcp = NoDhcp

\* One call of swap_images() with the persisted swap size.
SwapCall ==
    /\ pc \in {"swap", "swapped"}
    /\ LET fl == swap_images([app |-> app, dl |-> dl], _pfb_firmware_swap_size(info))
       IN app' = fl.app /\ dl' = fl.dl
    /\ nswapped' = SWAP_ITERATIONS(_pfb_firmware_swap_size(info))
    /\ pc' = IF pc = "swap" THEN "swapped" ELSE "swapped twice"
    /\ last' = "swap_images"
    /\ UNCHANGED <<variant, world, swp, dhcp, boots, posts, info, postVars, contact, expired,
                   netVars, acts, boot, req, ing, staged, installed, arm>>

SwapSpec == SwapInit /\ [][SwapCall]_vars

\* C17: after two consecutive swap_images calls with the same persisted swap
\* size, every byte of APP and of DOWNLOAD is as it was before the first call.
C17_SelfInverse ==
    pc = "swapped twice" => app = arm.app /\ dl = arm.dl

\* C17, witness: two calls were made with a size of one sector and a byte on
\* slots that differ in every sector, and the first call had changed both.
C17_Witness ==
    /\ pc = "swapped twice" /\ nswapped > 0
    /\ _pfb_firmware_swap_size(info) = FLASH_SECTOR_SIZE + 1
    /\ \A i \in SectorIdx : ReadSector(app, i) # ReadSector(dl, i)

\* C18: a Passthrough (should_rollback false, no firmware to swap; the trigger
\* false or the recovery window over) changes no byte of APP or DOWNLOAD and
\* swaps no sector; at its hand-off should_rollback and has_new_firmware are
\* false and after_rollback has the value it had; on a device whose flags were
\* all false, every flag is false at the hand-off.
C18_PassthroughStep ==
    pc = "decide" /\ last' = "Passthrough" =>
        /\ ~_pfb_should_rollback(info) /\ ~_pfb_has_firmware_to_swap(info)
        /\ pc' = "app"
        /\ app' = app /\ dl' = dl /\ nswapped' = 0
        /\ ~_pfb_should_rollback(info') /\ ~pfb_is_after_firmware_update(info')
        /\ pfb_is_after_rollback(info') = pfb_is_after_rollback(info)
        /\ (~info.hnf /\ ~info.ar /\ ~info.sr /\ ~info.fts =>
               ~info'.hnf /\ ~info'.ar /\ ~info'.sr /\ ~info'.fts)
InRecovery == pc \in {"listen", "post", "fault"}

\* C20, as stated: every boot ends in a hand-off or in a reset: once main has
\* started, it eventually hands off to the application or the device is reset.
C20_EndsInHandOff == boot.booted ~> (pc = "app" \/ pc = "reset")

\* How main leaves the recovery server: by a reset (from outside, by a reboot
\* request, by pfb_perform_update after a verified upload), by the hand-off of
\* a verified upload, or, in the flag-union variant, for the if-chain when WAIT
\* has elapsed and no contact was made.
C20_LeavesRecovery ==
    InRecovery /\ ~InRecovery' =>
        \/ pc' = "reset" /\ last' \in {"ExternalReset", "ServerReboot", "PostPerformUpdate"}
        \/ pc' = "app" /\ last' = "PostSwapAndCommit" /\ variant = "gpio"
        \/ pc' = "decide" /\ variant = "flags" /\ expired' /\ ~contact'

\* The step from the if-chain: one of Rollback, Swap-and-arm and Passthrough,
\* and the hand-off with the download slot marked invalid.
C20_ChainStep ==
    pc = "decide" /\ pc' # "decide" =>
        /\ pc' = "app" /\ last' \in ChainActions
        /\ Cardinality({i \in 1 .. Len(acts') : acts'[i] \in ChainActions}) = 1
        /\ ~_pfb_has_firmware_to_swap(info')

\* C20, amended: when Recovery is not entered, main performs exactly one of
\* Rollback, Swap-and-arm and Passthrough and hands off with the download slot
\* marked invalid; the recovery server is left only by a reset, by a verified
\* upload or, in the flag-union variant, for the if-chain once WAIT has elapsed
\* with no contact made, which happens eventually unless contact is made, an
\* upload is verified, the handler of a POST stops or the device is reset.
C20_EveryPathEnds ==
    /\ [][C20_LeavesRecovery /\ C20_ChainStep]_vars
    /\ pc = "decide" ~> pc = "app"
    /\ (variant = "flags" /\ pc = "listen" /\ ~contact) ~>
           (pc \notin {"listen", "post"} \/ contact)

\* C20, witness: the flag-union variant has left the recovery server at the
\* end of the window, after an upload that failed, and has handed off by a
\* Swap-and-arm.
C20_Witness ==
    /\ variant = "flags" /\ pc = "app" /\ last = "SwapAndArm"
    /\ boot.recover /\ posts > 0

(***************************************************************************)
(* One session of the recovery server, from the first listen on: the       *)
(* peers make one POST connection more than in the main specification, and *)
(* the flash may fail to program one page of the download slot.            *)
(***************************************************************************)
\* The offsets of the download slot at which a page may fail to program.
FailingPages == {{}, {0}, {PFB_ALIGN_SIZE}}

\* The GPIO variant listens after the first power-on with pin 0 held low; the
\* flag-union variant after the application has staged an image and reset.
SessionInit ==
    /\ variant \in {"gpio", "flags"}
    /\ pc = "listen" /\ sock = "listen"
    /\ boots = (IF variant = "gpio" THEN 1 ELSE 2) /\ posts = 0
    /\ app = FactoryImage
    /\ dl = (IF variant = "gpio" THEN ErasedSlot ELSE StagedSlot(2, FLASH_SWAP_SPACE_LENGTH))
    /\ info = (IF variant = "gpio" THEN InfoFresh
               ELSE pfb_mark_download_slot_as_valid(PassthroughInfo(InfoFresh),
                                                    FLASH_SWAP_SPACE_LENGTH))
    /\ upload_buffer = ZeroBuffer /\ upload_pos = 0
    /\ upload_done = 0 /\ len = 0 /\ data = <<>>
    /\ contact = FALSE /\ expired = FALSE
    /\ rxq = <<>> /\ peer = <<>>
    /\ last = "PowerOn" /\ acts = <<"Recovery">> /\ nswapped = 0
    /\ boot = [booted |-> TRUE, recover |-> TRUE,
               pins |-> IF variant = "gpio" THEN Sampled(FALSE, TRUE, FALSE, TRUE)
                        ELSE NoPins]
    /\ req = NoReq /\ ing = NoIng /\ installed = <<>>
    /\ staged = (IF variant = "gpio" THEN <<>>
                 ELSE Prefix(Image(2), FLASH_SWAP_SPACE_LENGTH))
    /\ arm = NoArm
    /\ \E f \in FailingPages : world = [posts |-> MaxPosts + 1, failing |-> f]
    /\ swp = NoSwp /\ dhcp = NoDhcp

SessionNext ==
    \/ \E kind \in {"GET", "GET /recover", "POST", "POST open"} \cup RebootKinds,
          L \in BodyLens : Connect(kind, L)
    \/ \E k \in SegmentSizes : NetDeliver(k)
    \/ \E ex \in BOOLEAN : ServerIdle(ex)
    \/ \E ex \in BOOLEAN : ServerGet(ex)
    \/ ServerReboot
    \/ \E ex \in BOOLEAN : ServerOther(ex)
    \/ PostStart
    \/ \E outcome \in WildOutcomes : PostStartNoTerminator(outcome)
    \/ PostIter
    \/ \E good, ex \in BOOLEAN : PostFail(good, ex)
    \/ PostSwapAndCommit
    \/ PostPerformUpdate

SessionSpec == SessionInit /\ [][SessionNext]_vars

\* C21, as stated: when a write of an upload chunk reports failure the upload is
\* aborted: the failed chunk is not counted in upload_done, and from then on
\* this POST writes nothing more, is followed by no swap, commit or update, and
\* the server stays in Recovery.
C21_AbortStep ==
    /\ ~req.failed /\ req'.failed => upload_done' = upload_done
    /\ req.failed =>
           /\ dl' = dl /\ upload_done' = upload_done
           /\ last' \notin {"PostSwapAndCommit", "PostPerformUpdate"}
           /\ pc' \in {"post", "listen"}
C21_AbortsOnWriteFailure == [][C21_AbortStep]_vars

(***************************************************************************)
(* swap_images statement by statement, with the interrupt mask of the      *)
(* core.  main calls it with interrupts enabled.                           *)
(***************************************************************************)
\* save_and_disable_interrupts(): the mask before the call is returned and
\* interrupts are disabled.
save_and_disable_interrupts(irq) == [saved |-> irq, irq |-> "disabled"]

\* restore_interrupts(status): the mask becomes the saved one.
restore_interrupts(status) == status

\* swap_images with restore_interrupts inside the loop body, after the last
\* program of each sector.
SwapFlowRestoreInLoop(pos, i, n) ==
    CASE pos = "idle"      -> "test"
      [] pos = "test"      -> IF i < n THEN "read" ELSE "done"
      [] pos = "read"      -> "erase_app"
      [] pos = "erase_app" -> "erase_dl"
      [] pos = "erase_dl"  -> "prog_app"
      [] pos = "prog_app"  -> "prog_dl"
      [] pos = "prog_dl"   -> "restore"
      [] pos = "restore"   -> "test"

\* The statement that follows the one at pos: the mask is saved before the
\* for loop, the body reads both sectors, erases both and programs both, and
\* the mask is restored after the loop.
SwapFlow(pos, i, n) ==
    CASE pos = "idle"      -> "test"
      [] pos = "test"      -> IF i < n THEN "read" ELSE "restore"
      [] pos = "read"      -> "erase_app"
      [] pos = "erase_app" -> "erase_dl"
      [] pos = "erase_dl"  -> "prog_app"
      [] pos = "prog_app"  -> "prog_dl"
      [] pos = "prog_dl"   -> "test"
      [] pos = "restore"   -> "done"

\* What every statement of swap_images leaves alone.
SwapFrame ==
    UNCHANGED <<variant, world, dhcp, boots, posts, info, postVars, contact, expired,
                netVars, acts, boot, nswapped, req, ing, staged, installed, arm>>

\* SWAP_ITERATIONS is computed and the interrupts are saved and disabled.
SwapSave ==
    /\ pc = "swap" /\ swp.pos = "idle"
    /\ LET s == save_and_disable_interrupts(swp.irq)
           n == SWAP_ITERATIONS(_pfb_firmware_swap_size(info))
       IN swp' = [swp EXCEPT !.pos = SwapFlow("idle", 0, n), !.i = 0, !.n = n,
                             !.saved = s.saved, !.irq = s.irq]
    /\ pc' = pc /\ last' = "save_and_disable_interrupts"
    /\ UNCHANGED <<app, dl>> /\ SwapFrame

\* The condition of the for loop.
SwapTest ==
    /\ pc = "swap" /\ swp.pos = "test"
    /\ swp' = [swp EXCEPT !.pos = SwapFlow("test", swp.i, swp.n)]
    /\ pc' = IF swp'.pos = "done" THEN "swapped" ELSE pc
    /\ last' = "for"
    /\ UNCHANGED <<app, dl>> /\ SwapFrame

\* The two memcpy calls into the RAM buffers.
SwapRead ==
    /\ pc = "swap" /\ swp.pos = "read"
    /\ swp' = [swp EXCEPT !.pos = SwapFlow("read", swp.i, swp.n),
                          !.from_dl = ReadSector(dl, swp.i),
                          !.from_app = ReadSector(app, swp.i)]
    /\ pc' = pc /\ last' = "memcpy"
    /\ UNCHANGED <<app, dl>> /\ SwapFrame

SwapEraseApp ==
    /\ pc = "swap" /\ swp.pos = "erase_app"
    /\ app' = flash_range_erase(app, swp.i * FLASH_SECTOR_SIZE, FLASH_SECTOR_SIZE)
    /\ swp' = [swp EXCEPT !.pos = SwapFlow("erase_app", swp.i, swp.n)]
    /\ pc' = pc /\ last' = "flash_range_erase"
    /\ UNCHANGED dl /\ SwapFrame

SwapEraseDl ==
    /\ pc = "swap" /\ swp.pos = "erase_dl"
    /\ dl' = flash_range_erase(dl, swp.i * FLASH_SECTOR_SIZE, FLASH_SECTOR_SIZE)
    /\ swp' = [swp EXCEPT !.pos = SwapFlow("erase_dl", swp.i, swp.n)]
    /\ pc' = pc /\ last' = "flash_range_erase"
    /\ UNCHANGED app /\ SwapFrame

SwapProgramApp ==
    /\ pc = "swap" /\ swp.pos = "prog_app"
    /\ app' = flash_range_program(app, swp.i * FLASH_SECTOR_SIZE, swp.from_dl,
                                  FLASH_SECTOR_SIZE)
    /\ swp' = [swp EXCEPT !.pos = SwapFlow("prog_app", swp.i, swp.n)]
    /\ pc' = pc /\ last' = "flash_range_program"
    /\ UNCHANGED dl /\ SwapFrame

\* The last statement of the body, and the i++ of the for loop.
SwapProgramDl ==
    /\ pc = "swap" /\ swp.pos = "prog_dl"
    /\ dl' = flash_range_program(dl, swp.i * FLASH_SECTOR_SIZE, swp.from_app,
                                 FLASH_SECTOR_SIZE)
    /\ swp' = [swp EXCEPT !.pos = SwapFlow("prog_dl", swp.i, swp.n), !.i = swp.i + 1]
    /\ pc' = pc /\ last' = "flash_range_program"
    /\ UNCHANGED app /\ SwapFrame

SwapRestore ==
    /\ pc = "swap" /\ swp.pos = "restore"
    /\ swp' = [swp EXCEPT !.pos = SwapFlow("restore", swp.i, swp.n),
                          !.irq = restore_interrupts(swp.saved),
                          !.restores = swp.restores + 1]
    /\ pc' = IF swp'.pos = "done" THEN "swapped" ELSE pc
    /\ last' = "restore_interrupts"
    /\ UNCHANGED <<app, dl>> /\ SwapFrame

SwapStepNext ==
    \/ SwapSave
    \/ SwapTest
    \/ SwapRead
    \/ SwapEraseApp
    \/ SwapEraseDl
    \/ SwapProgramApp
    \/ SwapProgramDl
    \/ SwapRestore

SwapStepSpec == SwapInit /\ [][SwapStepNext]_vars

\* The statements of swap_images that erase or program the flash.
FlashOps == {"flash_range_erase", "flash_range_program"}

\* C22: every erase and every program of swap_images runs with interrupts
\* disabled (they are disabled before the first erase and not enabled between
\* two sectors); the saved mask is restored exactly once, after the last
\* sector, and the mask is then what it was before the call.
C22_MaskStep ==
    /\ last' \in FlashOps => swp.irq = "disabled" /\ swp'.irq = "disabled"
    /\ swp'.restores <= 1
    /\ swp'.restores = 1 => swp'.i = swp'.n /\ swp'.irq = NoSwp.irq
    /\ swp'.pos = "done" => swp'.restores = 1
C22_InterruptsOffDuringSwap == [][C22_MaskStep]_vars

\* C22, witness: a call that swapped two sectors (four erases and four
\* programs that changed both slots) has returned with the mask restored.
C22_Witness ==
    /\ swp.pos = "done" /\ swp.n = 2 /\ swp.i = 2 /\ swp.restores = 1
    /\ swp.irq = "enabled" /\ swp.saved = "enabled"
    /\ app # arm.app /\ dl # arm.dl

\* The statements of swap_images leave the flash as swap_images() does.
SwapStepsAgree ==
    swp.pos = "done" =>
        [app |-> app, dl |-> dl]
            = swap_images([app |-> arm.app, dl |-> arm.dl], _pfb_firmware_swap_size(info))

(***************************************************************************)
(* The network bring-up of the recovery server: the DHCP loops and the     *)
(* static fallback, with the counts of the source.                         *)
(***************************************************************************)
\* for (int tries = 0; tries < ...; tries++): 5 in the GPIO variant, 10 in the
\* flag-union variant.
DHCP_TRIES == IF variant = "gpio" THEN 5 ELSE 10

\* wait = 20: the polls of one attempt.
DHCP_WAIT == 20

\* net_info, the static configuration: 192.168.0.100/24.
net_info == [ip |-> <<192, 168, 0, 100>>, sn |-> <<255, 255, 255, 0>>]

\* An inner loop that counts the poll down before it leaves on a lease.
PollCountsLease(wait, lease) == wait - 1

\* One pass of for (; wait > 0; wait--): a lease leaves the loop by break,
\* with wait as it is; otherwise wait is counted down.
Poll(wait, lease) == IF lease THEN wait ELSE wait - 1

\* What the bring-up leaves alone.
DhcpFrame ==
    UNCHANGED <<variant, world, swp, boots, posts, app, dl, info, postVars, contact,
                expired, netVars, acts, boot, nswapped, req, ing, staged, installed, arm>>

\* The recovery branch has been entered and the chip initialised; int wait = 0.
DhcpInit ==
    /\ variant \in {"gpio", "flags"}
    /\ pc = "dhcp" /\ sock = "off"
    /\ boots = (IF variant = "gpio" THEN 1 ELSE 2) /\ posts = 0
    /\ app = FactoryImage
    /\ dl = (IF variant = "gpio" THEN ErasedSlot ELSE StagedSlot(2, FLASH_SWAP_SPACE_LENGTH))
    /\ info = (IF variant = "gpio" THEN InfoFresh
               ELSE pfb_mark_download_slot_as_valid(PassthroughInfo(InfoFresh),
                                                    FLASH_SWAP_SPACE_LENGTH))
    /\ upload_buffer = ZeroBuffer /\ upload_pos = 0
    /\ upload_done = 0 /\ len = 0 /\ data = <<>>
    /\ contact = FALSE /\ expired = FALSE
    /\ rxq = <<>> /\ peer = <<>>
    /\ last = "PowerOn" /\ acts = <<"Recovery">> /\ nswapped = 0
    /\ boot = [booted |-> TRUE, recover |-> TRUE,
               pins |-> IF variant = "gpio" THEN Sampled(FALSE, TRUE, FALSE, TRUE)
                        ELSE NoPins]
    /\ req = NoReq /\ ing = NoIng /\ installed = <<>>
    /\ staged = (IF variant = "gpio" THEN <<>>
                 ELSE Prefix(Image(2), FLASH_SWAP_SPACE_LENGTH))
    /\ arm = NoArm
    /\ world = NoWorld /\ swp = NoSwp
    /\ dhcp = [NoDhcp EXCEPT !.pos = "for"]

\* The head of the outer loop: while tries are left, wait = 20 and DHCP_init.
DhcpAttempt ==
    /\ pc = "dhcp" /\ dhcp.pos = "for"
    /\ dhcp' = IF dhcp.tries < DHCP_TRIES
               THEN [dhcp EXCEPT !.pos = "poll", !.wait = DHCP_WAIT,
                                 !.attempts = dhcp.attempts + 1, !.polls = 0]
               ELSE [dhcp EXCEPT !.pos = "after"]
    /\ pc' = pc /\ last' = "DHCP_init"
    /\ DhcpFrame

\* One pass of the inner loop: DHCP_run() reports a lease or not.
DhcpPoll(lease) ==
    /\ pc = "dhcp" /\ dhcp.pos = "poll"
    /\ LET w == Poll(dhcp.wait, lease)
       IN dhcp' = [dhcp EXCEPT !.wait = w, !.polls = dhcp.polls + 1,
                               !.leased = lease,
                               !.pos = IF lease \/ w = 0 THEN "stop" ELSE "poll"]
    /\ pc' = pc /\ last' = "DHCP_run"
    /\ DhcpFrame

\* DHCP_stop(); if (wait > 0) break; otherwise tries++.
DhcpStop ==
    /\ pc = "dhcp" /\ dhcp.pos = "stop"
    /\ dhcp' = IF dhcp.wait > 0
               THEN [dhcp EXCEPT !.pos = "after"]
               ELSE [dhcp EXCEPT !.pos = "for", !.tries = dhcp.tries + 1]
    /\ pc' = pc /\ last' = "DHCP_stop"
    /\ DhcpFrame

\* if (wait == 0) network_initialize(net_info); the server then opens its
\* socket.
DhcpFallback ==
    /\ pc = "dhcp" /\ dhcp.pos = "after"
    /\ dhcp' = [dhcp EXCEPT !.pos = "done",
                            !.applied = IF dhcp.wait = 0 THEN net_info ELSE <<>>]
    /\ pc' = "listen" /\ sock' = "listen" /\ last' = "network_initialize"
    /\ UNCHANGED <<variant, world, swp, boots, posts, app, dl, info, postVars, contact,
                   expired, rxq, peer, acts, boot, nswapped, req, ing, staged, installed,
                   arm>>

DhcpNext ==
    \/ DhcpAttempt
    \/ \E lease \in BOOLEAN : DhcpPoll(lease)
    \/ DhcpStop
    \/ DhcpFallback

\* main runs the loops without waiting for anything but the polls.
DhcpSpec == DhcpInit /\ [][DhcpNext]_vars /\ WF_vars(DhcpNext)

\* C23, step part: at most DHCP_TRIES attempts of at most DHCP_WAIT polls each,
\* no poll after one that reported a lease, and when the bring-up is over
\* the static configuration 192.168.0.100/24 is applied exactly when no
\* poll reported a lease.
C23_Step ==
    /\ dhcp'.attempts <= DHCP_TRIES /\ dhcp'.polls <= DHCP_WAIT
    /\ dhcp.leased => last' # "DHCP_run"
    /\ dhcp'.applied # <<>> =>
           /\ dhcp'.pos = "done"
           /\ dhcp'.applied = [ip |-> <<192, 168, 0, 100>>, sn |-> <<255, 255, 255, 0>>]
    /\ dhcp'.pos = "done" => (dhcp'.applied # <<>> <=> ~dhcp'.leased)

\* C23: the network bring-up terminates within the bounds above, with the
\* static fallback if and only if no poll reported a lease.
C23_BringUpTerminates == [][C23_Step]_vars /\ <>(dhcp.pos = "done")

\* C23, witness: the lease arrived on the last poll of the last attempt, and
\* the static configuration was not applied.
C23_Witness ==
    /\ dhcp.pos = "done" /\ dhcp.leased /\ dhcp.applied = <<>>
    /\ dhcp.attempts = DHCP_TRIES /\ dhcp.polls = DHCP_WAIT

\* C23, second case: no poll of any attempt reported a lease and the static
\* configuration is in force.
C23_StaticReached ==
    /\ dhcp.pos = "done" /\ ~dhcp.leased /\ dhcp.applied = net_info
    /\ dhcp.attempts = DHCP_TRIES /\ dhcp.polls = DHCP_WAIT

\* The first write of a POST has just been made: one page is counted and the
\* buffer still holds what was written.
FirstWriteDone ==
    pc = "post" /\ last = "PostIter" /\ upload_done = PFB_ALIGN_SIZE /\ upload_pos = 0

\* A POST that begins with an empty buffer writes the first page of its own
\* body first (well-formed head, body of at least a page).
FreshPostWritesItsBody ==
    FirstWriteDone /\ req.kind = "POST" /\ req.pos0 = 0 =>
        \A k \in 0 .. (PFB_ALIGN_SIZE - 1) : upload_buffer[k] = req.body[k + 1]

\* C24, as stated: every POST of a recovery session begins with upload
\* position 0, and its first write holds the first PFB_ALIGN_SIZE bytes of its
\* own body, with no byte left in the buffer by an earlier POST.
C24_FreshBuffer ==
    /\ pc = "post" => req.pos0 = 0
    /\ FirstWriteDone /\ req.kind = "POST" =>
           \A k \in 0 .. (PFB_ALIGN_SIZE - 1) : upload_buffer[k] = req.body[k + 1]

\* C25, as stated: whatever size the socket reports pending, the bytes asked
\* of recv fit g_ethernet_buf, and where the request is read the terminating
\* zero is stored at an index of the buffer (at most sizeof - 1).
C25_ReadStep ==
    rxq # <<>> /\ rxq' # rxq =>
        /\ RecvLen(Len(rxq)) <= ETH_BUF_SIZE
        /\ pc = "listen" => RecvLen(Len(rxq)) \in EthBufIdx
C25_TerminatorInside == [][C25_ReadStep]_vars

\* C26: an installed and committed image stays installed.  After a
\* Swap-and-arm and the commit of the application, and as long as no new
\* pfb_perform_update() is made, every boot decision taken with the recovery
\* trigger false is a Passthrough that swaps nothing, and APP is never changed;
\* has_new_firmware, still set, causes no swap.
C26_Step ==
    /\ arm.state = "committed" /\ pc = "decide" /\ ~boot.recover =>
           last' = "Passthrough" /\ nswapped' = 0 /\ app' = app /\ dl' = dl
    /\ arm.state = "committed" /\ arm'.state = "committed" => app' = app
C26_CommittedStaysInstalled == [][C26_Step]_vars

\* C26, witness: the reset after the commit, taken with the trigger false
\* and has_new_firmware still set, has ended in a Passthrough, and the
\* application that runs is the installed image, not the factory one.
C26_Witness ==
    /\ arm.state = "committed" /\ last = "Passthrough" /\ pc = "app"
    /\ ~boot.recover /\ acts = <<"Passthrough">> /\ nswapped = 0
    /\ app # FactoryImage
    /\ ~_pfb_should_rollback(info) /\ ~_pfb_has_firmware_to_swap(info)

\* C26, the state before that decision: committed, trigger false, and the
\* has_new_firmware flag of the Swap-and-arm still set.
C26_NewFirmwareStillSet ==
    /\ arm.state = "committed" /\ pc = "decide" /\ ~boot.recover
    /\ pfb_is_after_firmware_update(info)

====
